---- MODULE Spec2Model ----
(***************************************************************************)
(* Local Command Bridge & Notification Relay of the VYAAS assistant.       *)
(*                                                                         *)
(*   vyaas_desktop_bridge.py    DesktopBridge: handle_data,                *)
(*                              execute_command, poll_whatsapp_messages,   *)
(*                              forward_whatsapp_to_ai                      *)
(*   vyaas_whatsapp_listener.py _last_notified_messages,                   *)
(*                              check_whatsapp_messages,                   *)
(*                              poll_whatsapp_messages                     *)
(*   agent.py                   monitor_system                             *)
(*                                                                         *)
(*   vyaas_local_commands.py    set_room, _send_local_command and the      *)
(*                              *_local tools                              *)
(*                                                                         *)
(* The specifications share the variables: Spec (command handling of the   *)
(* Bridge), ForwarderSpec (the Bridge's polling loop), ListenerSpec (the   *)
(* listener module's dedup cache), PollingSpec (both polling loops),       *)
(* DispatchSpec (the dispatcher tools and the Bridge), AutomationSpec (the *)
(* tasks of automation commands on the Bridge's event loop), MonitorSpec   *)
(* and MonitorFairSpec (the health monitor).                               *)
(***************************************************************************)
EXTENDS Integers, Sequences, FiniteSets, TLC

VARIABLES
    running,        \* DesktopBridge.running
    bpc,            \* the Bridge's polling task: "none", "loop" or "exited"
    last,           \* what the most recent handle_data call did
    disturbed,      \* an earlier packet was malformed, unknown, or its executor raised
    service_flag,   \* DesktopBridge.whatsapp_service_running
    btick,          \* what the Bridge's most recent poll tick did
    bprev,          \* what the poll tick before that one did
    notified,       \* _last_notified_messages of the listener module
    inserted,       \* the ids in notified, in the order they were added
    lpc,            \* the listener's polling loop: "loop" or "exited"
    ltick,          \* what the listener's poll tick did, if it was the last to act
    invoked,        \* the ids the listener's callback was called with since
                    \* the set was last cut, and those it was called with twice
    lcheck,         \* what check_whatsapp_messages did, if it was the last to act
    trims,          \* number of trims of the set so far
    last_alert_time,\* monitor_system: time of the last alert (0: none yet)
    mtick,          \* what the most recent iteration of monitor_system did
    alerts,         \* number of alerts monitor_system has triggered
    ticks,          \* number of iterations monitor_system has made
    processes,      \* monitor_system: the process list of the most recent iteration
    _current_room,  \* vyaas_local_commands._current_room
    channel,        \* payloads published on topic local_commands, not yet received
    dlast,          \* what the most recent dispatcher tool call did
    tasks,          \* the handle_data tasks created by on_data, oldest first
    screen,         \* keyboard, mouse and clipboard steps performed, with their task
    clock,          \* environment: what time.time() returns at the next iteration
    pending         \* environment: the list the service returns at /messages

bridgeVars == <<running, bpc, last, disturbed, service_flag, btick, bprev>>
listenerVars == <<notified, inserted, lpc, ltick, lcheck, trims, invoked>>
monitorVars == <<last_alert_time, mtick, alerts, ticks, processes, clock>>
dispatcherVars == <<_current_room, channel, dlast>>
automationVars == <<tasks, screen>>
envVars == <<pending>>

vars == <<bridgeVars, listenerVars, monitorVars, dispatcherVars, automationVars, envVars>>

(***************************************************************************)
(* Bounds of the model.                                                    *)
(***************************************************************************)
Extra == 1          \* message ids the service knows beyond the cap of the set
MaxTrims == 2       \* trims of the listener's set
MaxTicks == 3       \* iterations of monitor_system
StartTime == 61     \* time.time() at the first iteration, beyond the cooldown
MaxInFlight == 1    \* payloads published and not yet received by the Bridge
MaxTasks == 2       \* handle_data tasks of automation commands

(***************************************************************************)
(* Constants of the program.                                               *)
(***************************************************************************)
CacheCap == 100
TrimKeep == 50
CPU_THRESHOLD == 90
RAM_THRESHOLD == 90
DISK_THRESHOLD == 90
ALERT_COOLDOWN == 60
SLEEP_SECONDS == 2

(***************************************************************************)
(* Command envelopes as they arrive on the data channel.                   *)
(***************************************************************************)
None == "None"

\* the names tested by the if/elif chain of execute_command
RegisteredCommands ==
    {"open_app", "open_maps", "open_notes", "send_whatsapp",
     "send_whatsapp_contact", "type_text", "press_key", "open_url",
     "play_youtube", "screenshot", "set_volume", "lock_pc", "shutdown",
     "cancel_shutdown"}

\* names the chain does not test; None is an envelope without "command"
UnknownCommands == {"format_disk", None}

Commands == RegisteredCommands \cup UnknownCommands

ParamKeys == {"app", "query", "content", "phone", "message", "contact",
              "text", "key", "url", "level", "delay"}

Absent == "<absent>"

\* params of an envelope: a JSON object (is_dict) or another JSON value
EmptyParams == [is_dict |-> TRUE, kv |-> [k \in ParamKeys |-> Absent]]
FullParams  == [is_dict |-> TRUE, kv |-> [k \in ParamKeys |-> "v_" \o k]]
NullParams  == [is_dict |-> FALSE, kv |-> [k \in ParamKeys |-> Absent]]
ParamChoices == {EmptyParams, FullParams, NullParams}

\* the secret field an envelope may carry; the handler never reads it
Secrets == {Absent, "good", "bad"}

\* payloads: bytes that are no JSON, JSON that is no object, a JSON object
Wires == {"garbage", "json_nondict", "json"}

Types == {"local_command", "whatsapp_message"}

Packets ==
    [wire : {"json"}, type : {"local_command"}, command : Commands,
     params : ParamChoices, secret : Secrets]
    \cup [wire : {"json"}, type : Types \ {"local_command"},
          command : {"lock_pc"}, params : {EmptyParams}, secret : Secrets]
    \cup [wire : {"garbage", "json_nondict"}, type : {None},
          command : {None}, params : {EmptyParams}, secret : {Absent}]

NoPacket == [wire |-> None, type |-> None, command |-> None,
             params |-> EmptyParams, secret |-> Absent]

(***************************************************************************)
(* dict.get(key, default)                                                  *)
(***************************************************************************)
Get(params, key, default) ==
    IF params.kv[key] = Absent THEN default ELSE params.kv[key]

(***************************************************************************)
(* The if/elif chain of execute_command: the method each command name      *)
(* selects, and the params.get(...) arguments it is called with.           *)
(***************************************************************************)
ExecutorOf(command) ==
    CASE command = "open_app"              -> "open_app"
      [] command = "open_maps"             -> "open_maps"
      [] command = "open_notes"            -> "open_notes"
      [] command = "send_whatsapp"         -> "send_whatsapp"
      [] command = "send_whatsapp_contact" -> "send_whatsapp_contact"
      [] command = "type_text"             -> "type_text"
      [] command = "press_key"             -> "press_key"
      [] command = "open_url"              -> "open_url"
      [] command = "play_youtube"          -> "play_youtube"
      [] command = "screenshot"            -> "take_screenshot"
      [] command = "set_volume"            -> "set_volume"
      [] command = "lock_pc"               -> "lock_pc"
      [] command = "shutdown"              -> "shutdown"
      [] command = "cancel_shutdown"       -> "cancel_shutdown"
      [] OTHER                             -> None

\* <<key, default>> pairs read from params, in argument order
ArgSpec(command) ==
    CASE command = "open_app"              -> << <<"app", "">> >>
      [] command = "open_maps"             -> << <<"query", "">> >>
      [] command = "open_notes"            -> << <<"content", "">> >>
      [] command = "send_whatsapp"         -> << <<"phone", "">>, <<"message", "">> >>
      [] command = "send_whatsapp_contact" -> << <<"contact", "">>, <<"message", "">> >>
      [] command = "type_text"             -> << <<"text", "">> >>
      [] command = "press_key"             -> << <<"key", "">> >>
      [] command = "open_url"              -> << <<"url", "">> >>
      [] command = "play_youtube"          -> << <<"query", "">> >>
      [] command = "set_volume"            -> << <<"level", "50">> >>
      [] command = "shutdown"              -> << <<"delay", "60">> >>
      [] OTHER                             -> << >>

ArgsOf(command, params) ==
    [i \in 1..Len(ArgSpec(command)) |->
        Get(params, ArgSpec(command)[i][1], ArgSpec(command)[i][2])]

\* executors whose effect is a subprocess.run(...) whose exit status is not read
RunsSubprocess ==
    {"take_screenshot", "set_volume", "lock_pc", "shutdown", "cancel_shutdown"}

\* what the environment lets an invoked executor do
Outcomes == {"ok", "raises", "nonzero_exit"}

OutcomesOf(executor) ==
    IF executor \in RunsSubprocess THEN Outcomes ELSE {"ok", "raises"}

(***************************************************************************)
(* Log records written by the logger of the bridge.                        *)
(***************************************************************************)
LogRec(level, text, about) == [level |-> level, text |-> text, about |-> about]

\* open_app catches its own exception and logs it; the others let it escape
ExecutorLog(executor, outcome) ==
    IF outcome = "raises"
    THEN IF executor = "open_app"
         THEN << LogRec("ERROR", "Failed to open", executor) >>
         ELSE << >>
    ELSE << LogRec("INFO", "done", executor) >>

ExecutorRaises(executor, outcome) ==
    outcome = "raises" /\ executor # "open_app"

(***************************************************************************)
(* Variants of execute_command with a dispatch slip: the final else branch *)
(* dropped, and the executor called without the envelope's params.         *)
(***************************************************************************)
execute_command_silent_unknown(command, params, outcome) ==
    IF command \in RegisteredCommands
    THEN IF ArgSpec(command) # << >> /\ ~params.is_dict
         THEN [calls |-> << >>,
               log |-> << LogRec("ERROR", "Error executing", command) >>,
               ret |-> None, escaped |-> FALSE]
         ELSE [calls |-> << [name |-> ExecutorOf(command),
                             args |-> ArgsOf(command, params)] >>,
               log |-> ExecutorLog(ExecutorOf(command), outcome) \o
                       (IF ExecutorRaises(ExecutorOf(command), outcome)
                        THEN << LogRec("ERROR", "Error executing", command) >>
                        ELSE << >>),
               ret |-> None, escaped |-> FALSE]
    ELSE [calls |-> << >>, log |-> << >>, ret |-> None, escaped |-> FALSE]

execute_command_default_args(command, params, outcome) ==
    IF command \in RegisteredCommands
    THEN [calls |-> << [name |-> ExecutorOf(command),
                        args |-> ArgsOf(command, EmptyParams)] >>,
          log |-> ExecutorLog(ExecutorOf(command), outcome) \o
                  (IF ExecutorRaises(ExecutorOf(command), outcome)
                   THEN << LogRec("ERROR", "Error executing", command) >>
                   ELSE << >>),
          ret |-> None, escaped |-> FALSE]
    ELSE [calls |-> << >>,
          log |-> << LogRec("WARNING", "Unknown command", command) >>,
          ret |-> None, escaped |-> FALSE]

(***************************************************************************)
(* DesktopBridge.execute_command(command, params): the executor calls it   *)
(* makes, what it logs, the value it returns and whether an exception      *)
(* leaves it.  params.get on a non-dict raises before the executor runs.   *)
(***************************************************************************)
execute_command(command, params, outcome) ==
    IF command \in RegisteredCommands
    THEN IF ArgSpec(command) # << >> /\ ~params.is_dict
         THEN [calls |-> << >>,
               log |-> << LogRec("ERROR", "Error executing", command) >>,
               ret |-> None, escaped |-> FALSE]
         ELSE [calls |-> << [name |-> ExecutorOf(command),
                             args |-> ArgsOf(command, params)] >>,
               log |-> ExecutorLog(ExecutorOf(command), outcome) \o
                       (IF ExecutorRaises(ExecutorOf(command), outcome)
                        THEN << LogRec("ERROR", "Error executing", command) >>
                        ELSE << >>),
               ret |-> None, escaped |-> FALSE]
    ELSE [calls |-> << >>,
          log |-> << LogRec("WARNING", "Unknown command", command) >>,
          ret |-> None, escaped |-> FALSE]

(***************************************************************************)
(* Variant of handle_data that treats a failure as fatal: its except       *)
(* branch and an unknown or failing command clear DesktopBridge.running.   *)
(***************************************************************************)
handle_data_fatal_errors(packet, outcome) ==
    IF packet.wire # "json"
    THEN [calls |-> << >>,
          log |-> << LogRec("ERROR", "Error handling data", None) >>,
          ret |-> None, escaped |-> FALSE, keeps_running |-> FALSE]
    ELSE IF packet.type # "local_command"
    THEN [calls |-> << >>, log |-> << >>, ret |-> None, escaped |-> FALSE,
          keeps_running |-> TRUE]
    ELSE LET r == execute_command(packet.command, packet.params, outcome)
         IN  [calls |-> r.calls,
              log |-> << LogRec("INFO", "Received command", packet.command) >>
                      \o r.log,
              ret |-> r.ret, escaped |-> r.escaped,
              keeps_running |->
                  \A i \in 1..Len(r.log) : r.log[i].level = "INFO"]

(***************************************************************************)
(* DesktopBridge.handle_data(packet): decode, json.loads, test the type,   *)
(* read command and params, call execute_command.  No field other than     *)
(* type, command and params is read.                                       *)
(***************************************************************************)
handle_data(packet, outcome) ==
    IF packet.wire # "json"
    THEN [calls |-> << >>,
          log |-> << LogRec("ERROR", "Error handling data", None) >>,
          ret |-> None, escaped |-> FALSE, keeps_running |-> TRUE]
    ELSE IF packet.type # "local_command"
    THEN [calls |-> << >>, log |-> << >>, ret |-> None, escaped |-> FALSE,
          keeps_running |-> TRUE]
    ELSE LET r == execute_command(packet.command, packet.params, outcome)
         IN  [calls |-> r.calls,
              log |-> << LogRec("INFO", "Received command", packet.command) >>
                      \o r.log,
              ret |-> r.ret, escaped |-> r.escaped, keeps_running |-> TRUE]

\* the kind of a handled packet
KindOf(packet, outcome) ==
    IF packet.wire # "json" THEN "malformed"
    ELSE IF packet.type # "local_command" THEN "ignored"
    ELSE IF packet.command \notin RegisteredCommands THEN "unknown"
    ELSE IF ArgSpec(packet.command) # << >> /\ ~packet.params.is_dict
    THEN "bad_params"
    ELSE outcome

DisturbingKinds == {"malformed", "unknown", "bad_params", "raises"}

NoHandling == [packet |-> NoPacket, outcome |-> None, kind |-> None, calls |-> << >>,
               log |-> << >>, ret |-> None, escaped |-> FALSE]

(***************************************************************************)
(* The WhatsApp service (environment).  Message ids are unique per         *)
(* message; the service holds a pending list it returns at /messages,      *)
(* which arrivals extend and which the service may cut or clear.  The      *)
(* lists it can hold are drawn from PendingChoices; one of them shows a    *)
(* message twice.                                                          *)
(***************************************************************************)
Run(first, n) == [i \in 1..n |-> first + i - 1]

Range(seq) == {seq[i] : i \in 1..Len(seq)}

PendingChoices ==
    {<< >>, <<1, 2, 1>>, Run(1, CacheCap), Run(1, CacheCap + Extra),
     Run(CacheCap + 1, Extra)}

SetPending(p) ==
    /\ p # pending
    /\ pending' = p
    /\ UNCHANGED <<bridgeVars, listenerVars, monitorVars, dispatcherVars, automationVars>>

(***************************************************************************)
(* DesktopBridge.check_whatsapp_service: GET /health; True and the flag    *)
(* set when the answer is 200 with ready (healthOk), else the flag cleared *)
(* and False.                                                              *)
(* DesktopBridge.get_whatsapp_messages: GET /messages; the list on a 200,  *)
(* [] on any other status or exception.                                    *)
(***************************************************************************)
check_whatsapp_service(healthOk) == healthOk

get_whatsapp_messages(fetchOk) == IF fetchOk THEN pending ELSE << >>

(***************************************************************************)
(* DesktopBridge.forward_whatsapp_to_ai(msg): publish_data on topic        *)
(* whatsapp_notifications; an exception of the publish is logged and       *)
(* swallowed.  TRUE when the message got published.                        *)
(***************************************************************************)
forward_whatsapp_to_ai(msg, publishOk) == publishOk

(***************************************************************************)
(* Variant of the Bridge's iteration that forwards the newest message      *)
(* first.                                                                  *)
(***************************************************************************)
bridge_poll_tick_newest_first(healthOk, fetchOk, publishOk) ==
    IF check_whatsapp_service(healthOk)
    THEN LET messages == get_whatsapp_messages(fetchOk)
             sent == SelectSeq(messages,
                         LAMBDA m : forward_whatsapp_to_ai(m, publishOk))
         IN  [polled |-> TRUE, ready |-> TRUE, failed |-> ~fetchOk,
              fetched |-> messages,
              forwarded |-> [i \in 1..Len(sent) |-> sent[Len(sent) + 1 - i]],
              after_failure |-> FALSE, alive |-> TRUE]
    ELSE [polled |-> TRUE, ready |-> FALSE, failed |-> TRUE,
          fetched |-> << >>, forwarded |-> << >>,
          after_failure |-> FALSE, alive |-> TRUE]

(***************************************************************************)
(* One iteration of DesktopBridge.poll_whatsapp_messages: when the service *)
(* is ready, every fetched message is logged and forwarded, in list order. *)
(***************************************************************************)
bridge_poll_tick(healthOk, fetchOk, publishOk) ==
    IF check_whatsapp_service(healthOk)
    THEN LET messages == get_whatsapp_messages(fetchOk)
         IN  [polled |-> TRUE, ready |-> TRUE, failed |-> ~fetchOk,
              fetched |-> messages,
              forwarded |-> SelectSeq(messages,
                  LAMBDA m : forward_whatsapp_to_ai(m, publishOk)),
              after_failure |-> FALSE, alive |-> TRUE]
    ELSE [polled |-> TRUE, ready |-> FALSE, failed |-> TRUE,
          fetched |-> << >>, forwarded |-> << >>,
          after_failure |-> FALSE, alive |-> TRUE]

NoTick == [polled |-> FALSE, ready |-> FALSE, failed |-> FALSE,
           fetched |-> << >>, forwarded |-> << >>,
           after_failure |-> FALSE, alive |-> TRUE]

BridgePollTick(healthOk, fetchOk, publishOk) ==
    /\ bpc = "loop"
    /\ LET t == bridge_poll_tick(healthOk, fetchOk, publishOk)
       IN  /\ btick' = [t EXCEPT !.after_failure = btick.failed]
           /\ bpc' = IF running /\ t.alive THEN "loop" ELSE "exited"
    /\ bprev' = [fetched |-> btick.fetched, forwarded |-> btick.forwarded]
    /\ service_flag' = check_whatsapp_service(healthOk)
    /\ UNCHANGED <<running, last, disturbed, listenerVars, monitorVars, dispatcherVars, automationVars, envVars>>

BridgePoll ==
    \E healthOk, fetchOk, publishOk \in BOOLEAN :
        BridgePollTick(healthOk, fetchOk, publishOk)

(***************************************************************************)
(* vyaas_whatsapp_listener: is_whatsapp_service_running (GET /health,      *)
(* the ready flag, False on any exception) and get_pending_messages        *)
(* (GET /messages, [] on any exception).                                   *)
(***************************************************************************)
is_whatsapp_service_running(healthOk) == healthOk

get_pending_messages(fetchOk) == IF fetchOk THEN pending ELSE << >>

\* the elements of seq, each at its first occurrence only
FirstOccurrences(seq) ==
    IF Cardinality(Range(seq)) = Len(seq) THEN seq
    ELSE LET keep == {i \in 1..Len(seq) : \A j \in 1..(i - 1) : seq[j] # seq[i]}
             idx  == [k \in 1..Cardinality(keep) |->
                         CHOOSE i \in keep : Cardinality({j \in keep : j < i}) = k - 1]
         IN  [k \in 1..Cardinality(keep) |-> seq[idx[k]]]

Prefix(seq, n) == [i \in 1..(IF n < Len(seq) THEN n ELSE Len(seq)) |-> seq[i]]

(***************************************************************************)
(* Variant of the polling iteration that forgets the set when the service  *)
(* cannot be reached or the fetch returns nothing.                         *)
(***************************************************************************)
listener_poll_tick_forgets(cache, order, healthOk, fetchOk, cbFailAt) ==
    IF is_whatsapp_service_running(healthOk) /\ fetchOk
    THEN LET messages == get_pending_messages(fetchOk)
             fresh == FirstOccurrences(
                          SelectSeq(messages, LAMBDA m : m \notin cache))
         IN  [cache |-> cache \cup Range(fresh),
              order |-> order \o fresh,
              failed |-> FALSE, fetched |-> messages, called |-> fresh,
              delivered |-> fresh, raised |-> FALSE, alive |-> TRUE]
    ELSE [cache |-> {}, order |-> << >>, failed |-> TRUE,
          fetched |-> << >>, called |-> << >>, delivered |-> << >>,
          raised |-> FALSE, alive |-> TRUE]

(***************************************************************************)
(* Variant of the polling iteration without the membership test: every     *)
(* fetched message is handed to the callback.                              *)
(***************************************************************************)
listener_poll_tick_unfiltered(cache, order, healthOk, fetchOk, cbFailAt) ==
    IF is_whatsapp_service_running(healthOk)
    THEN LET messages == get_pending_messages(fetchOk)
             fresh == FirstOccurrences(
                          SelectSeq(messages, LAMBDA m : m \notin cache))
         IN  [cache |-> cache \cup Range(messages),
              order |-> order \o fresh,
              failed |-> ~fetchOk, fetched |-> messages, called |-> messages,
              delivered |-> messages, raised |-> FALSE, alive |-> TRUE]
    ELSE [cache |-> cache, order |-> order, failed |-> TRUE,
          fetched |-> << >>, called |-> << >>, delivered |-> << >>,
          raised |-> FALSE, alive |-> TRUE]

(***************************************************************************)
(* One iteration of the while loop of poll_whatsapp_messages(callback).    *)
(* For each fetched message whose id is not in the set, in list order:     *)
(* the id is added, then the callback is awaited.  cbFailAt is the id of    *)
(* the message at which the callback raises (0: none): the exception ends  *)
(* the iteration.  called lists the ids the callback was called with,      *)
(* delivered those for which it returned.                                  *)
(* The set is never trimmed here.                                          *)
(***************************************************************************)
listener_poll_tick(cache, order, healthOk, fetchOk, cbFailAt) ==
    IF is_whatsapp_service_running(healthOk)
    THEN LET messages == get_pending_messages(fetchOk)
             fresh == FirstOccurrences(
                          SelectSeq(messages, LAMBDA m : m \notin cache))
             raised == cbFailAt \in Range(fresh)
             at == IF raised THEN CHOOSE i \in 1..Len(fresh) : fresh[i] = cbFailAt
                   ELSE 0
             added == IF raised THEN Prefix(fresh, at) ELSE fresh
             delivered == IF raised THEN Prefix(fresh, at - 1) ELSE fresh
         IN  [cache |-> cache \cup Range(added),
              order |-> order \o added,
              failed |-> ~fetchOk, fetched |-> messages, called |-> added,
              delivered |-> delivered, raised |-> raised, alive |-> TRUE]
    ELSE [cache |-> cache, order |-> order, failed |-> TRUE,
          fetched |-> << >>, called |-> << >>, delivered |-> << >>,
          raised |-> FALSE, alive |-> TRUE]

NoCheck == [reply |-> None, reported |-> << >>, trimmed |-> FALSE,
            grown |-> << >>]

NoListenerTick ==
    [failed |-> FALSE, after_failure |-> FALSE, fetched |-> << >>,
     called |-> << >>, delivered |-> << >>, raised |-> FALSE]

NoneInvoked == [ids |-> {}, twice |-> {}]

\* the ids that occur more than once in seq
Repeated(seq) ==
    IF Cardinality(Range(seq)) = Len(seq) THEN {}
    ELSE {seq[i] : i \in {k \in 1..Len(seq) : \E j \in 1..(k - 1) : seq[j] = seq[k]}}

ListenerPollTick(healthOk, fetchOk, cbFailAt) ==
    /\ lpc = "loop"
    /\ LET t == listener_poll_tick(notified, inserted, healthOk, fetchOk, cbFailAt)
       IN  /\ notified' = t.cache
           /\ inserted' = t.order
           /\ lpc' = IF t.alive THEN "loop" ELSE "exited"
           /\ ltick' = [failed |-> t.failed,
                        after_failure |-> ltick.failed,
                        fetched |-> t.fetched, called |-> t.called,
                        delivered |-> t.delivered, raised |-> t.raised]
           /\ invoked' = [ids |-> invoked.ids \cup Range(t.called),
                          twice |-> invoked.twice
                                    \cup (invoked.ids \cap Range(t.called))
                                    \cup Repeated(t.called)]
    /\ lcheck' = NoCheck
    /\ UNCHANGED <<trims, bridgeVars, monitorVars, dispatcherVars, automationVars, envVars>>

ListenerPoll ==
    \E healthOk, fetchOk \in BOOLEAN : \E cbFailAt \in 0..2 :
        ListenerPollTick(healthOk, fetchOk, cbFailAt)

(***************************************************************************)
(* list(s)[-n:] of a Python set s.  The iteration order of a set is not    *)
(* its insertion order: it follows the hashes of the ids, which for str    *)
(* ids change from process to process.  The orders a run can show are      *)
(* drawn from ListOrders: the insertion order, its reverse, and the        *)
(* insertion order rotated (the oldest ids listed last).                   *)
(***************************************************************************)
ListOrders == {"insertion", "reverse", "rotated"}

ListOfSet(order, h) ==
    LET len == Len(order)
        r == len \div 4
    IN  CASE h = "insertion" -> order
          [] h = "reverse"   -> [i \in 1..len |-> order[len + 1 - i]]
          [] OTHER           -> SubSeq(order, r + 1, len) \o SubSeq(order, 1, r)

\* the set of the last n elements of that list
LastOfSet(order, h, n) ==
    LET lst == ListOfSet(order, h)
    IN  {lst[i] : i \in (Len(lst) - n + 1)..Len(lst)}

(***************************************************************************)
(* check_whatsapp_messages(): the not-running and no-message returns, the  *)
(* filter against the set, the adds, the trim of a set grown beyond 100    *)
(* to the last 50 of its list, and the report of the new messages.         *)
(***************************************************************************)
check_whatsapp_messages(cache, order, healthOk, fetchOk, h) ==
    LET messages == get_pending_messages(fetchOk)
        new_messages == SelectSeq(messages, LAMBDA m : m \notin cache)
        grown == order \o FirstOccurrences(new_messages)
        too_big == Len(grown) > CacheCap
        kept == IF too_big THEN LastOfSet(grown, h, TrimKeep) ELSE Range(grown)
    IN  IF ~is_whatsapp_service_running(healthOk)
        THEN [cache |-> cache, order |-> order, reply |-> "not running",
              reported |-> << >>, trimmed |-> FALSE, grown |-> order]
        ELSE IF messages = << >> \/ new_messages = << >>
        THEN [cache |-> cache, order |-> order, reply |-> "no new",
              reported |-> << >>, trimmed |-> FALSE, grown |-> order]
        ELSE [cache |-> kept,
              order |-> SelectSeq(grown, LAMBDA m : m \in kept),
              reply |-> "new messages", reported |-> new_messages,
              trimmed |-> too_big, grown |-> grown]

CheckMessages(healthOk, fetchOk, h) ==
    /\ LET c == check_whatsapp_messages(notified, inserted, healthOk, fetchOk, h)
       IN  /\ notified' = c.cache
           /\ inserted' = c.order
           /\ lcheck' = [reply |-> c.reply, reported |-> c.reported,
                         trimmed |-> c.trimmed,
                         grown |-> IF c.trimmed THEN c.grown ELSE << >>]
           /\ c.trimmed => trims < MaxTrims
           /\ trims' = IF c.trimmed THEN trims + 1 ELSE trims
           /\ invoked' = IF c.trimmed THEN NoneInvoked ELSE invoked
    /\ ltick' = NoListenerTick
    /\ UNCHANGED <<lpc, bridgeVars, monitorVars, dispatcherVars, automationVars, envVars>>

Check ==
    \E healthOk, fetchOk \in BOOLEAN : \E h \in ListOrders :
        CheckMessages(healthOk, fetchOk, h)

(***************************************************************************)
(* agent.monitor_system(room, session): one iteration of its while loop.   *)
(* Sampling (psutil) may raise: the iteration is then skipped by the outer *)
(* except.  Otherwise the metrics are published on system_metrics (an      *)
(* exception of the publish is swallowed), and when more than              *)
(* ALERT_COOLDOWN seconds passed since last_alert_time one message is      *)
(* composed of the clauses of the breached metrics; a non-empty message    *)
(* sets last_alert_time, is published on system_alert and handed to        *)
(* session.generate_reply, each in its own try/except.                     *)
(***************************************************************************)
\* psutil.process_iter: the processes an iteration sees, each with the raw
\* cpu_percent psutil reports (a sum over the cores, so it can pass 100)
Proc(name, raw) == [name |-> name, cpu_percent |-> raw]

ProcessSamples ==
    {<<Proc("python.exe", 180), Proc("code.exe", 160)>>,
     <<Proc("System Idle Process", 190), Proc("code.exe", 160), Proc("chrome.exe", 170)>>}

CpuCounts == {1, 2}

PROCESS_THRESHOLD == 80

\* pinfo['cpu_percent'] = raw / cpu_count for every process seen
Normalized(procs, cpu_count) ==
    [i \in 1..Len(procs) |->
        [procs[i] EXCEPT !.cpu_percent = procs[i].cpu_percent \div cpu_count]]

\* high_usage_app = None
NoApp == [name |-> None, cpu_percent |-> 0]

\* the loop over the processes: the first one with the highest usage
\* above 80 that is neither python.exe nor the idle process, or NoApp
RECURSIVE HighUsageFrom(_, _, _)
HighUsageFrom(procs, i, best) ==
    IF i > Len(procs) THEN best
    ELSE LET p == procs[i]
             counts == /\ p.cpu_percent > PROCESS_THRESHOLD
                       /\ p.name # "python.exe"
                       /\ p.name # "System Idle Process"
             better == \/ best = NoApp
                       \/ p.cpu_percent > best.cpu_percent
         IN  HighUsageFrom(procs, i + 1, IF counts /\ better THEN p ELSE best)

HighUsageApp(procs) == HighUsageFrom(procs, 1, NoApp)

Clauses_at_threshold(cpu, ram, disk, high_usage_app) ==
    (IF cpu >= CPU_THRESHOLD THEN {"cpu"} ELSE {})
    \cup (IF ram > RAM_THRESHOLD THEN {"ram"} ELSE {})
    \cup (IF disk > DISK_THRESHOLD THEN {"disk"} ELSE {})
    \cup (IF high_usage_app THEN {"process"} ELSE {})

Clauses(cpu, ram, disk, high_usage_app) ==
    (IF cpu > CPU_THRESHOLD THEN {"cpu"} ELSE {})
    \cup (IF ram > RAM_THRESHOLD THEN {"ram"} ELSE {})
    \cup (IF disk > DISK_THRESHOLD THEN {"disk"} ELSE {})
    \cup (IF high_usage_app THEN {"process"} ELSE {})

NoMonitorTick ==
    [sampled |-> FALSE, time |-> 0, cpu |-> 0, ram |-> 0, disk |-> 0,
     high_usage_app |-> FALSE,
     metrics_attempts |-> 0, metrics_published |-> FALSE,
     after_metrics_failure |-> FALSE,
     elapsed |-> FALSE, alerted |-> FALSE, clauses |-> {},
     topics |-> {}, speech_requests |-> 0, spoken |-> FALSE,
     after_suppressed |-> FALSE,
     last_alert_time |-> 0, alive |-> TRUE]

monitor_tick_no_reset(last_alert, current_time, sampleOk, cpu, ram, disk, high_usage_app, metricsOk, alertOk, speechOk) ==
    IF ~sampleOk
    THEN [NoMonitorTick EXCEPT !.last_alert_time = last_alert]
    ELSE LET elapsed == current_time - last_alert > ALERT_COOLDOWN
             clauses == IF elapsed
                        THEN Clauses(cpu, ram, disk, high_usage_app) ELSE {}
         IN  [sampled |-> TRUE, time |-> current_time, cpu |-> cpu,
              ram |-> ram, disk |-> disk, high_usage_app |-> high_usage_app,
              metrics_attempts |-> 1, metrics_published |-> metricsOk,
              after_metrics_failure |-> FALSE,
              elapsed |-> elapsed, alerted |-> clauses # {},
              clauses |-> clauses,
              topics |-> IF clauses # {} /\ alertOk THEN {"system_alert"} ELSE {},
              speech_requests |-> IF clauses # {} THEN 1 ELSE 0,
              spoken |-> clauses # {} /\ speechOk,
              after_suppressed |-> FALSE,
              last_alert_time |-> last_alert,
              alive |-> TRUE]

monitor_tick_metrics_fatal(last_alert, current_time, sampleOk, cpu, ram, disk, high_usage_app, metricsOk, alertOk, speechOk) ==
    IF ~sampleOk
    THEN [NoMonitorTick EXCEPT !.last_alert_time = last_alert]
    ELSE LET elapsed == current_time - last_alert > ALERT_COOLDOWN
             clauses == IF elapsed /\ metricsOk
                        THEN Clauses(cpu, ram, disk, high_usage_app) ELSE {}
         IN  [sampled |-> TRUE, time |-> current_time, cpu |-> cpu,
              ram |-> ram, disk |-> disk, high_usage_app |-> high_usage_app,
              metrics_attempts |-> 1, metrics_published |-> metricsOk,
              after_metrics_failure |-> FALSE,
              elapsed |-> elapsed, alerted |-> clauses # {},
              clauses |-> clauses,
              topics |-> IF clauses # {} /\ alertOk THEN {"system_alert"} ELSE {},
              speech_requests |-> IF clauses # {} THEN 1 ELSE 0,
              spoken |-> clauses # {} /\ speechOk,
              after_suppressed |-> FALSE,
              last_alert_time |-> IF clauses # {} THEN current_time ELSE last_alert,
              alive |-> TRUE]

monitor_tick_sampling_fatal(last_alert, current_time, sampleOk, cpu, ram, disk, high_usage_app, metricsOk, alertOk, speechOk) ==
    IF ~sampleOk
    THEN [NoMonitorTick EXCEPT !.last_alert_time = last_alert, !.alive = FALSE]
    ELSE LET elapsed == current_time - last_alert > ALERT_COOLDOWN
             clauses == IF elapsed
                        THEN Clauses(cpu, ram, disk, high_usage_app) ELSE {}
         IN  [sampled |-> TRUE, time |-> current_time, cpu |-> cpu,
              ram |-> ram, disk |-> disk, high_usage_app |-> high_usage_app,
              metrics_attempts |-> 1, metrics_published |-> metricsOk,
              after_metrics_failure |-> FALSE,
              elapsed |-> elapsed, alerted |-> clauses # {},
              clauses |-> clauses,
              topics |-> IF clauses # {} /\ alertOk THEN {"system_alert"} ELSE {},
              speech_requests |-> IF clauses # {} THEN 1 ELSE 0,
              spoken |-> clauses # {} /\ speechOk,
              after_suppressed |-> FALSE,
              last_alert_time |-> IF clauses # {} THEN current_time ELSE last_alert,
              alive |-> TRUE]

\* variant: the alert publish comes first, and its exception ends the
\* alert before last_alert_time is set and before the speech request
monitor_tick_emission_first(last_alert, current_time, sampleOk, cpu, ram, disk, high_usage_app, metricsOk, alertOk, speechOk) ==
    IF ~sampleOk
    THEN [NoMonitorTick EXCEPT !.last_alert_time = last_alert]
    ELSE LET elapsed == current_time - last_alert > ALERT_COOLDOWN
             clauses == IF elapsed
                        THEN Clauses(cpu, ram, disk, high_usage_app) ELSE {}
         IN  [sampled |-> TRUE, time |-> current_time, cpu |-> cpu,
              ram |-> ram, disk |-> disk, high_usage_app |-> high_usage_app,
              metrics_attempts |-> 1, metrics_published |-> metricsOk,
              after_metrics_failure |-> FALSE,
              elapsed |-> elapsed, alerted |-> clauses # {},
              clauses |-> clauses,
              topics |-> IF clauses # {} /\ alertOk THEN {"system_alert"} ELSE {},
              speech_requests |-> IF clauses # {} /\ alertOk THEN 1 ELSE 0,
              spoken |-> clauses # {} /\ alertOk /\ speechOk,
              after_suppressed |-> FALSE,
              last_alert_time |-> IF clauses # {} /\ alertOk THEN current_time
                                  ELSE last_alert,
              alive |-> TRUE]

monitor_tick(last_alert, current_time, sampleOk, cpu, ram, disk, high_usage_app, metricsOk, alertOk, speechOk) ==
    IF ~sampleOk
    THEN [NoMonitorTick EXCEPT !.last_alert_time = last_alert]
    ELSE LET elapsed == current_time - last_alert > ALERT_COOLDOWN
             clauses == IF elapsed
                        THEN Clauses(cpu, ram, disk, high_usage_app) ELSE {}
         IN  [sampled |-> TRUE, time |-> current_time, cpu |-> cpu,
              ram |-> ram, disk |-> disk, high_usage_app |-> high_usage_app,
              metrics_attempts |-> 1, metrics_published |-> metricsOk,
              after_metrics_failure |-> FALSE,
              elapsed |-> elapsed, alerted |-> clauses # {},
              clauses |-> clauses,
              topics |-> IF clauses # {} /\ alertOk THEN {"system_alert"} ELSE {},
              speech_requests |-> IF clauses # {} THEN 1 ELSE 0,
              spoken |-> clauses # {} /\ speechOk,
              after_suppressed |-> FALSE,
              last_alert_time |-> IF clauses # {} THEN current_time ELSE last_alert,
              alive |-> TRUE]

\* seconds from one iteration's time.time() to the next: the sleep of 2
\* seconds plus what sampling, publishing and speaking took
Gaps == {SLEEP_SECONDS, ALERT_COOLDOWN}

CpuSamples == {CPU_THRESHOLD, CPU_THRESHOLD + 5}
RamSamples == {50, RAM_THRESHOLD + 5}
DiskSamples == {50, DISK_THRESHOLD + 5}

MonitorTick(sampleOk, cpu, ram, disk, procs, metricsOk, alertOk, speechOk, gap) ==
    /\ ticks < MaxTicks
    /\ mtick.alive
    /\ processes' = IF sampleOk THEN procs ELSE << >>
    /\ LET t == monitor_tick(last_alert_time, clock, sampleOk, cpu, ram, disk,
                             HighUsageApp(procs) # NoApp,
                             metricsOk, alertOk, speechOk)
       IN  /\ mtick' = [t EXCEPT !.time = clock,
                                 !.after_suppressed =
                                     /\ mtick.sampled /\ ~mtick.alerted
                                     /\ mtick.cpu > CPU_THRESHOLD,
                                 !.after_metrics_failure =
                                     /\ mtick.sampled
                                     /\ ~mtick.metrics_published]
           /\ last_alert_time' = t.last_alert_time
           /\ alerts' = IF t.alerted THEN alerts + 1 ELSE alerts
    /\ ticks' = ticks + 1
    /\ clock' = clock + gap
    /\ UNCHANGED <<bridgeVars, listenerVars, dispatcherVars, automationVars, envVars>>

\* which of the three sends of an iteration succeed: the metrics publish,
\* the alert publish, the speech request
Sends(metricsOk, alertOk, speechOk) ==
    [metricsOk |-> metricsOk, alertOk |-> alertOk, speechOk |-> speechOk]

SendOutcomes ==
    {Sends(TRUE, TRUE, TRUE), Sends(FALSE, TRUE, TRUE), Sends(TRUE, FALSE, TRUE),
     Sends(TRUE, TRUE, FALSE), Sends(FALSE, FALSE, FALSE)}

\* an iteration whose sampling raises: nothing else of it runs
MonitorSamplingFails ==
    \E gap \in Gaps :
        MonitorTick(FALSE, 0, 0, 0, << >>, FALSE, FALSE, FALSE, gap)

MonitorSamples ==
    \E cpu \in CpuSamples, ram \in RamSamples, disk \in DiskSamples :
        \E raw \in ProcessSamples, cpu_count \in CpuCounts :
            \E o \in SendOutcomes, gap \in Gaps :
                MonitorTick(TRUE, cpu, ram, disk, Normalized(raw, cpu_count),
                            o.metricsOk, o.alertOk, o.speechOk, gap)

Monitor == MonitorSamplingFails \/ MonitorSamples

\* iterations on a machine where only the CPU load varies
MonitorSamplesCpu ==
    \E cpu \in CpuSamples, o \in SendOutcomes, gap \in Gaps :
        MonitorTick(TRUE, cpu, 50, 50, << >>,
                    o.metricsOk, o.alertOk, o.speechOk, gap)

MonitorLoop == MonitorSamplingFails \/ MonitorSamplesCpu

(***************************************************************************)
(* vyaas_local_commands: the dispatcher tools of the agent.                *)
(***************************************************************************)
Tools ==
    {"open_whatsapp_local", "open_maps_local", "open_notes_local",
     "open_app_local", "send_whatsapp_local", "send_whatsapp_contact_local",
     "type_text_local", "press_key_local", "open_url_local",
     "play_youtube_local", "take_screenshot_local", "set_volume_local",
     "lock_pc_local", "shutdown_pc_local", "cancel_shutdown_local"}

\* the command_type each tool passes to _send_local_command
ToolCommand(tool) ==
    CASE tool = "open_whatsapp_local"         -> "open_app"
      [] tool = "open_maps_local"             -> "open_maps"
      [] tool = "open_notes_local"            -> "open_notes"
      [] tool = "open_app_local"              -> "open_app"
      [] tool = "send_whatsapp_local"         -> "send_whatsapp"
      [] tool = "send_whatsapp_contact_local" -> "send_whatsapp_contact"
      [] tool = "type_text_local"             -> "type_text"
      [] tool = "press_key_local"             -> "press_key"
      [] tool = "open_url_local"              -> "open_url"
      [] tool = "play_youtube_local"          -> "play_youtube"
      [] tool = "take_screenshot_local"       -> "screenshot"
      [] tool = "set_volume_local"            -> "set_volume"
      [] tool = "lock_pc_local"               -> "lock_pc"
      [] tool = "shutdown_pc_local"           -> "shutdown"
      [] tool = "cancel_shutdown_local"       -> "cancel_shutdown"

\* the keys of the params dict each tool builds
ToolParamKeys(tool) ==
    CASE tool = "open_whatsapp_local"         -> {"app"}
      [] tool = "open_maps_local"             -> {"query"}
      [] tool = "open_notes_local"            -> {"content"}
      [] tool = "open_app_local"              -> {"app"}
      [] tool = "send_whatsapp_local"         -> {"phone", "message"}
      [] tool = "send_whatsapp_contact_local" -> {"contact", "message"}
      [] tool = "type_text_local"             -> {"text"}
      [] tool = "press_key_local"             -> {"key"}
      [] tool = "open_url_local"              -> {"url"}
      [] tool = "play_youtube_local"          -> {"query"}
      [] tool = "set_volume_local"            -> {"level"}
      [] tool = "shutdown_pc_local"           -> {"delay"}
      [] OTHER                                -> {}

\* the params dict of a tool call; the tool's arguments are "v_<key>"
ToolParams(tool) ==
    [is_dict |-> TRUE,
     kv |-> [k \in ParamKeys |->
                IF k \notin ToolParamKeys(tool) THEN Absent
                ELSE IF tool = "open_whatsapp_local" THEN "whatsapp"
                ELSE "v_" \o k]]

\* the string a tool returns when _send_local_command returned True
DoneMessage(tool) ==
    CASE tool = "open_whatsapp_local"         -> "Done! WhatsApp open karne ka command bhej diya hai Bhaiya!"
      [] tool = "open_maps_local"             -> "Done! Google Maps {} open kar diya!"
      [] tool = "open_notes_local"            -> "Done! Notes app open kar diya Bhaiya!"
      [] tool = "open_app_local"              -> "Done! {app_name} open karne ka command bhej diya!"
      [] tool = "send_whatsapp_local"         -> "Done! WhatsApp message {phone_number} ko bhejne ka command diya Bhaiya!"
      [] tool = "send_whatsapp_contact_local" -> "Done! {contact_name} ko WhatsApp message bhej diya!"
      [] tool = "type_text_local"             -> "Done! Text type kar diya!"
      [] tool = "press_key_local"             -> "Done! {key} press kar diya!"
      [] tool = "open_url_local"              -> "Done! Browser mein {url} open kar diya!"
      [] tool = "play_youtube_local"          -> "Done! YouTube pe {query} search kar raha hoon!"
      [] tool = "take_screenshot_local"       -> "Done! Screenshot le liya aur Pictures folder mein save kar diya!"
      [] tool = "set_volume_local"            -> "Done! Volume {level}% kar diya!"
      [] tool = "lock_pc_local"               -> "Done! PC lock kar diya Bhaiya!"
      [] tool = "shutdown_pc_local"           -> "Done! PC {delay_seconds} seconds mein shutdown ho jayega. Cancel karne ke liye bolo."
      [] tool = "cancel_shutdown_local"       -> "Done! Shutdown cancel kar diya!"

\* the string a tool returns when _send_local_command returned False
ErrorMessage(tool) ==
    IF tool = "open_whatsapp_local"
    THEN "Error: Desktop bridge se connection nahi hai. Please check if bridge is running."
    ELSE "Error: Desktop bridge se connection nahi hai."

\* a payload without the type key
Payload_untyped(command_type, params) ==
    [wire |-> "json", type |-> Absent, command |-> command_type,
     params |-> params, secret |-> Absent]

\* the payload _send_local_command builds: type, command, params, no secret
Payload(command_type, params) ==
    [wire |-> "json", type |-> "local_command", command |-> command_type,
     params |-> params, secret |-> Absent]

_send_local_command_swallows(room, command_type, params, publishOk) ==
    IF room = None
    THEN [ret |-> FALSE, published |-> << >>,
          log |-> << LogRec("ERROR", "No room available", command_type) >>]
    ELSE IF publishOk
    THEN [ret |-> TRUE, published |-> << Payload(command_type, params) >>,
          log |-> << LogRec("INFO", "Sent local command", command_type) >>]
    ELSE [ret |-> TRUE, published |-> << >>,
          log |-> << LogRec("ERROR", "Failed to send local command", command_type) >>]

_send_local_command(room, command_type, params, publishOk) ==
    IF room = None
    THEN [ret |-> FALSE, published |-> << >>,
          log |-> << LogRec("ERROR", "No room available", command_type) >>]
    ELSE IF publishOk
    THEN [ret |-> TRUE, published |-> << Payload(command_type, params) >>,
          log |-> << LogRec("INFO", "Sent local command", command_type) >>]
    ELSE [ret |-> FALSE, published |-> << >>,
          log |-> << LogRec("ERROR", "Failed to send local command", command_type) >>]

\* one of the *_local tools: send, then phrase the reply from the bool
tool_call(tool, room, publishOk) ==
    LET success == _send_local_command(room, ToolCommand(tool),
                                       ToolParams(tool), publishOk)
    IN  [tool |-> tool, room |-> room, publishOk |-> publishOk,
         success |-> success.ret, published |-> success.published,
         reply |-> IF success.ret THEN DoneMessage(tool) ELSE ErrorMessage(tool),
         handled |-> FALSE]

NoToolCall ==
    [tool |-> None, room |-> None, publishOk |-> FALSE, success |-> FALSE,
     published |-> << >>, reply |-> None, handled |-> FALSE]

\* set_room(room)
set_room(room) ==
    /\ _current_room' = room
    /\ UNCHANGED <<channel, dlast, bridgeVars, listenerVars, monitorVars, automationVars, envVars>>

SetRoom == \E room \in {None, "room"} : set_room(room)

\* a tool call; what it publishes reaches the Bridge only if the Bridge is
\* in the room
ToolCall(tool, publishOk) ==
    /\ Len(channel) < MaxInFlight
    /\ LET r == tool_call(tool, _current_room, publishOk)
       IN  /\ dlast' = r
           /\ channel' = IF running THEN channel \o r.published ELSE channel
    /\ UNCHANGED <<_current_room, bridgeVars, listenerVars, monitorVars, automationVars, envVars>>

Dispatch == \E tool \in Tools, publishOk \in BOOLEAN : ToolCall(tool, publishOk)

(***************************************************************************)
(* The executors that drive the keyboard and the mouse, step by step, and  *)
(* the two-tier send executors in front of them.                           *)
(***************************************************************************)
\* what the WhatsApp service can answer to GET /health, POST /send and
\* GET /chats (match: 200 and a chat whose name matches the contact)
HealthResults == {"ready", "not_ready", "conn_error", "timeout"}
SendResults == {"200", "500", "timeout"}
ChatsResults == {"match", "no_match", "500"}

ApiSteps == {"GET /health", "GET /chats", "POST /send"}

\* a step that gives the event loop to another task
Suspends_on_sleep(step) == step \in {"time.sleep", "asyncio.sleep"}

Suspends(step) == step = "asyncio.sleep"

\* a step that acts on the desktop
IsUi(step) == step \notin ApiSteps \cup {"time.sleep", "asyncio.sleep", "logger"}

_send_whatsapp_ui(gui) ==
    IF ~gui THEN << "logger" >>
    ELSE << "Popen whatsapp://send", "time.sleep", "click", "time.sleep",
            "press enter", "logger" >>

_send_whatsapp_contact_ui(gui) ==
    IF ~gui THEN << "logger" >>
    ELSE << "Popen whatsapp:", "time.sleep", "click", "time.sleep",
            "press escape", "time.sleep", "hotkey ctrl+f", "time.sleep",
            "hotkey ctrl+a", "copy contact", "time.sleep", "hotkey ctrl+v",
            "time.sleep", "press down", "time.sleep", "press enter",
            "time.sleep", "copy message", "time.sleep", "hotkey ctrl+v",
            "time.sleep", "press enter", "logger" >>

\* type_text with a text that is not ASCII: through the clipboard
type_text(gui) ==
    IF ~gui THEN << "logger" >>
    ELSE << "logger", "copy text", "time.sleep", "hotkey ctrl+v", "logger" >>

\* send_whatsapp: the steps it makes, given what the service answers
send_whatsapp(health, send, gui) ==
    << "logger", "GET /health" >> \o
    (IF check_whatsapp_service(health = "ready")
     THEN << "POST /send" >> \o
          (IF send = "200" THEN << "logger" >>
           ELSE << "logger", "logger" >> \o _send_whatsapp_ui(gui))
     ELSE << "logger" >> \o _send_whatsapp_ui(gui))

\* send_whatsapp_contact: POST /send only for a chat found by GET /chats
send_whatsapp_contact(health, chats, send, gui) ==
    << "logger", "GET /health" >> \o
    (IF check_whatsapp_service(health = "ready")
     THEN << "GET /chats" >> \o
          (IF chats = "match"
           THEN << "POST /send" >> \o
                (IF send = "200" THEN << "logger" >>
                 ELSE IF send = "timeout"
                 THEN << "logger", "logger" >> \o _send_whatsapp_contact_ui(gui)
                 ELSE << "logger" >> \o _send_whatsapp_contact_ui(gui))
           ELSE IF chats = "500"
           THEN << "logger" >> \o _send_whatsapp_contact_ui(gui)
           ELSE << "logger", "logger" >> \o _send_whatsapp_contact_ui(gui))
     ELSE << "logger" >> \o _send_whatsapp_contact_ui(gui))

AutomationCommands == {"send_whatsapp", "send_whatsapp_contact", "type_text"}

StepsOf(command, health, chats, send, gui) ==
    CASE command = "send_whatsapp" -> send_whatsapp(health, send, gui)
      [] command = "send_whatsapp_contact" ->
             send_whatsapp_contact(health, chats, send, gui)
      [] command = "type_text" -> type_text(gui)

\* the answers a command can get: None for a request it does not make
AnswersOf(command) ==
    CASE command = "send_whatsapp" ->
             {<<h, None, None>> : h \in HealthResults \ {"ready"}}
             \cup {<<"ready", None, s>> : s \in SendResults}
      [] command = "send_whatsapp_contact" ->
             {<<h, None, None>> : h \in HealthResults \ {"ready"}}
             \cup {<<"ready", c, None>> : c \in ChatsResults \ {"match"}}
             \cup {<<"ready", "match", s>> : s \in SendResults}
      [] command = "type_text" -> {<<None, None, None>>}

\* on_data: asyncio.create_task(self.handle_data(data))
OnData(command, answers, gui) ==
    /\ running
    /\ Len(tasks) < MaxTasks
    /\ \A i \in DOMAIN tasks : tasks[i].gui = gui
    /\ tasks' = Append(tasks,
                  [command |-> command, health |-> answers[1],
                   chats |-> answers[2], send |-> answers[3], gui |-> gui,
                   steps |-> StepsOf(command, answers[1], answers[2],
                                     answers[3], gui),
                   pc |-> 1, created_at |-> Len(screen)])
    /\ UNCHANGED <<screen, bridgeVars, listenerVars, monitorVars, dispatcherVars, envVars>>

\* the index of the step at which a task running from pc gives up the loop:
\* its next suspending step, or its last step
RECURSIVE RunsTo(_, _)
RunsTo(steps, pc) ==
    IF pc >= Len(steps) \/ Suspends(steps[pc]) THEN pc
    ELSE RunsTo(steps, pc + 1)

\* the event loop runs one task until the task suspends or ends
RunTask(i) ==
    /\ i \in DOMAIN tasks
    /\ tasks[i].pc <= Len(tasks[i].steps)
    /\ LET t == tasks[i]
           stop == RunsTo(t.steps, t.pc)
           done == SelectSeq(SubSeq(t.steps, t.pc, stop), IsUi)
       IN  /\ tasks' = [tasks EXCEPT ![i].pc = stop + 1]
           /\ screen' = screen \o [j \in 1..Len(done) |->
                                     [task |-> i, step |-> done[j]]]
    /\ UNCHANGED <<bridgeVars, listenerVars, monitorVars, dispatcherVars, envVars>>

Arrive ==
    \E command \in AutomationCommands, gui \in BOOLEAN :
        \E answers \in AnswersOf(command) : OnData(command, answers, gui)

EventLoop == \E i \in 1..MaxTasks : RunTask(i)

(***************************************************************************)
(* Initial state: DesktopBridge() constructed, nothing connected.          *)
(***************************************************************************)
Init ==
    /\ running = FALSE
    /\ bpc = "none"
    /\ last = NoHandling
    /\ disturbed = FALSE
    /\ service_flag = FALSE
    /\ btick = NoTick
    /\ bprev = [fetched |-> << >>, forwarded |-> << >>]
    /\ notified = {}
    /\ inserted = << >>
    /\ lpc = "loop"
    /\ ltick = NoListenerTick
    /\ lcheck = NoCheck
    /\ trims = 0
    /\ invoked = NoneInvoked
    /\ last_alert_time = 0
    /\ mtick = NoMonitorTick
    /\ alerts = 0
    /\ ticks = 0
    /\ processes = << >>
    /\ clock = StartTime
    /\ tasks = << >>
    /\ screen = << >>
    /\ _current_room = None
    /\ channel = << >>
    /\ dlast = NoToolCall
    /\ pending = << >>

(***************************************************************************)
(* DesktopBridge.run -> connect: on success running is set, the            *)
(* data_received handler is registered and the polling task is created;    *)
(* on failure run returns.                                                 *)
(***************************************************************************)
Connect(ok, healthOk) ==
    /\ ~running /\ bpc = "none"
    /\ running' = ok
    /\ bpc' = IF ok THEN "loop" ELSE "none"
    /\ service_flag' = IF ok THEN check_whatsapp_service(healthOk) ELSE service_flag
    /\ UNCHANGED <<last, disturbed, btick, bprev, listenerVars, monitorVars, dispatcherVars, automationVars, envVars>>

(***************************************************************************)
(* on_data -> handle_data for one received packet.                         *)
(***************************************************************************)
HandleData(packet, outcome) ==
    /\ running
    /\ LET r == handle_data(packet, outcome)
       IN  /\ last' = [packet |-> packet, outcome |-> outcome,
                       kind |-> KindOf(packet, outcome), calls |-> r.calls, log |-> r.log, ret |-> r.ret,
                       escaped |-> r.escaped]
           /\ running' = r.keeps_running
    /\ disturbed' = (disturbed \/ last.kind \in DisturbingKinds)
    /\ UNCHANGED <<bpc, service_flag, btick, bprev, listenerVars, monitorVars, automationVars, envVars>>

\* a packet from any participant of the room
Receive ==
    \E packet \in Packets :
        \E outcome \in (IF packet.wire = "json"
                           /\ packet.type = "local_command"
                           /\ packet.command \in RegisteredCommands
                           /\ ~(ArgSpec(packet.command) # << >>
                                /\ ~packet.params.is_dict)
                        THEN OutcomesOf(ExecutorOf(packet.command))
                        ELSE {None}) :
            /\ HandleData(packet, outcome)
            /\ UNCHANGED dispatcherVars

\* the Bridge receives the oldest payload the dispatcher published
Deliver ==
    /\ channel # << >>
    /\ \E outcome \in OutcomesOf(ExecutorOf(Head(channel).command)) :
           HandleData(Head(channel), outcome)
    /\ channel' = Tail(channel)
    /\ dlast' = [dlast EXCEPT !.handled = (channel = dlast.published)]
    /\ UNCHANGED _current_room

ConnectBridge == \E ok, healthOk \in BOOLEAN : Connect(ok, healthOk)

ServiceChanges == \E p \in PendingChoices : SetPending(p)

(***************************************************************************)
(* Command handling of the Bridge, with its polling loop running.          *)
(***************************************************************************)
Next == ConnectBridge \/ Receive \/ BridgePoll

Spec == Init /\ [][Next]_vars

(***************************************************************************)
(* The Bridge's polling loop against a service whose pending list changes. *)
(***************************************************************************)
NextForwarder == ConnectBridge \/ BridgePoll \/ ServiceChanges

ForwarderSpec == Init /\ [][NextForwarder]_vars

(***************************************************************************)
(* The listener module: its polling loop and the check_whatsapp_messages   *)
(* tool, in any interleaving, against the same service.                    *)
(***************************************************************************)
NextListener == ListenerPoll \/ Check \/ ServiceChanges

ListenerSpec == Init /\ [][NextListener]_vars

(***************************************************************************)
(* Both polling loops, without the check_whatsapp_messages tool.           *)
(***************************************************************************)
NextPolling == ConnectBridge \/ BridgePoll \/ ListenerPoll \/ ServiceChanges

PollingSpec == Init /\ [][NextPolling]_vars

(***************************************************************************)
(* The health monitor.                                                     *)
(***************************************************************************)
(***************************************************************************)
(* The dispatcher tools of the agent and the Bridge that receives what     *)
(* they publish.                                                           *)
(***************************************************************************)
NextDispatch == ConnectBridge \/ SetRoom \/ Dispatch \/ Deliver

DispatchSpec == Init /\ [][NextDispatch]_vars

(***************************************************************************)
(* The Bridge's event loop with the tasks of automation commands.          *)
(***************************************************************************)
NextAutomation == ConnectBridge \/ Arrive \/ EventLoop

AutomationSpec == Init /\ [][NextAutomation]_vars

NextMonitor == Monitor

\* the monitor task is scheduled again after every asyncio.sleep(2)
NextMonitorLoop == MonitorLoop
MonitorFairSpec == Init /\ [][NextMonitorLoop]_vars /\ WF_vars(MonitorLoop)

MonitorSpec == Init /\ [][NextMonitor]_vars

(***************************************************************************)
(* Reading of the handler's outcome.  execute_command returns None and     *)
(* publishes nothing; what it reports about a command is its log records.  *)
(* The status of a handling is error when a record of level ERROR or the   *)
(* "Unknown command" warning was written, ok otherwise.                    *)
(***************************************************************************)
StatusOf(log) ==
    IF \E i \in 1..Len(log) :
          log[i].level = "ERROR" \/ log[i].text = "Unknown command"
    THEN "error" ELSE "ok"

\* the last packet was an envelope of type local_command
LastIsEnvelope ==
    last.packet.wire = "json" /\ last.packet.type = "local_command"

\* the secret the Dispatcher and the Bridge would share
ConfiguredSecret == "good"

(***************************************************************************)
(* C1: an envelope whose secret does not match the configured secret (or   *)
(* that carries none) gets an unauthorized error and no executor is        *)
(* invoked, whatever its command and params.                               *)
(***************************************************************************)
C1_MismatchedSecretRejected ==
    (LastIsEnvelope /\ last.packet.secret # ConfiguredSecret)
        => /\ last.calls = << >>
           /\ \E i \in 1..Len(last.log) : last.log[i].text = "unauthorized"

C3_ExecutorFailureIsError ==
    (LastIsEnvelope /\ last.packet.command \in RegisteredCommands)
        => /\ ~last.escaped
           /\ StatusOf(last.log) \in {"ok", "error"}
           /\ (last.calls # << >> /\ last.outcome # "ok")
                 => StatusOf(last.log) = "error"

(***************************************************************************)
(* C4: once the Bridge is Listening no received packet moves it out of     *)
(* Listening: running stays set, no exception leaves the handler and the   *)
(* polling loop keeps running.                                             *)
(***************************************************************************)
C4_StaysListening ==
    [][running => (running' /\ ~last'.escaped /\ (bpc = "loop" => bpc' = "loop"))]_vars

\* a command is dispatched after a malformed, unknown or raising packet,
\* and the polling loop has ticked since
C4_Witness ==
    /\ disturbed
    /\ last.kind = "ok" /\ Len(last.calls) = 1
    /\ running /\ bpc = "loop" /\ btick.polled

(***************************************************************************)
(* C5: for an envelope with a registered command exactly the executor      *)
(* registered for that name is invoked, once, with the values the          *)
(* envelope's params give (the default where a key is missing), no other   *)
(* executor is invoked, and the status is ok when the executor succeeds.   *)
(***************************************************************************)
Registry ==
    [c \in RegisteredCommands |->
        IF c = "screenshot" THEN "take_screenshot" ELSE c]

C5_ExactlyTheMappedExecutor ==
    (LastIsEnvelope /\ last.packet.command \in RegisteredCommands
        /\ last.packet.params.is_dict)
        => /\ Len(last.calls) = 1
           /\ last.calls[1].name = Registry[last.packet.command]
           /\ Len(last.calls[1].args) = Len(ArgSpec(last.packet.command))
           /\ \A i \in 1..Len(last.calls[1].args) :
                 LET key == ArgSpec(last.packet.command)[i][1]
                 IN  last.packet.params.kv[key] # Absent
                        => last.calls[1].args[i] = last.packet.params.kv[key]
           /\ (last.outcome = "ok" => StatusOf(last.log) = "ok")

C5_Witness ==
    /\ LastIsEnvelope
    /\ last.packet.command = "lock_pc"
    /\ last.outcome = "ok"
    /\ last.calls = << [name |-> "lock_pc", args |-> << >>] >>

(***************************************************************************)
(* C6: a message whose id the service returns in two consecutive poll      *)
(* ticks of the Bridge is not forwarded in both of them.                   *)
(***************************************************************************)
C6_ForwardedOnce ==
    \A id \in Range(bprev.fetched) \cap Range(btick.fetched) :
        ~(id \in Range(bprev.forwarded) /\ id \in Range(btick.forwarded))

(***************************************************************************)
(* C7: the set of notified ids never holds more than the cap of 100 ids,   *)
(* after any interleaving of check_whatsapp_messages calls and iterations  *)
(* of the listener's polling loop.                                         *)
(***************************************************************************)
C7_CacheWithinCap == Cardinality(notified) <= CacheCap

(***************************************************************************)
(* C8: when more ids than the cap have been inserted and the set is cut,   *)
(* the ids evicted are the earliest inserted ones: none of the ids kept    *)
(* was inserted before an evicted id.                                      *)
(***************************************************************************)
C8_EarliestEvicted ==
    lcheck.trimmed =>
        LET evicted == Range(lcheck.grown) \ notified
            oldest == Range(SubSeq(lcheck.grown, 1, Cardinality(evicted)))
        IN  evicted = oldest

\* the other half of that statement: an id that is not in the set when
\* check_whatsapp_messages is called and is in the fetched list is reported
EvictedIdIsReportedAgain ==
    [][(lcheck'.reply = "new messages" /\ notified' # notified)
        => Range(lcheck'.reported) = Range(pending) \ notified]_vars

(***************************************************************************)
(* C9: a poll tick in which the service is unreachable or the fetch fails  *)
(* forwards nothing, leaves the set of notified ids as it was and leaves   *)
(* the polling loop running, in the listener and in the Bridge.            *)
(***************************************************************************)
C9_FailedTickChangesNothing ==
    [][/\ (ltick'.failed /\ UNCHANGED <<bridgeVars, envVars>>)
            => /\ notified' = notified /\ inserted' = inserted
               /\ ltick'.delivered = << >>
               /\ lpc' = "loop"
       /\ (btick'.failed /\ bpc = "loop" /\ UNCHANGED <<listenerVars, envVars>>)
            => /\ btick'.forwarded = << >>
               /\ bpc' = "loop"]_vars

\* with ids in the set, a tick fails; the tick after it delivers again
C9_Witness ==
    /\ ltick.after_failure /\ ~ltick.failed /\ ltick.delivered # << >>
    /\ Cardinality(notified) > Len(ltick.delivered)
    /\ btick.after_failure /\ ~btick.failed /\ btick.forwarded # << >>

(***************************************************************************)
(* C10: of two consecutive sampling ticks that both exceed the CPU         *)
(* threshold and lie within the cooldown of 60 seconds of each other, the  *)
(* first, when the cooldown had elapsed, alerts and the second does not;   *)
(* a tick with the CPU threshold exceeded more than 60 seconds after the   *)
(* last alert alerts again; nothing but alerts goes out on system_alert.   *)
(***************************************************************************)
C10_CooldownGatesAlerts ==
    [][ticks' = ticks + 1 =>
        /\ (/\ mtick.sampled /\ mtick.cpu > CPU_THRESHOLD /\ mtick.elapsed
            /\ mtick'.sampled /\ mtick'.cpu > CPU_THRESHOLD
            /\ mtick'.time - mtick.time <= ALERT_COOLDOWN)
              => (mtick.alerted /\ ~mtick'.alerted /\ alerts' = alerts)
        /\ (/\ mtick'.sampled /\ mtick'.cpu > CPU_THRESHOLD
            /\ mtick'.time - last_alert_time > ALERT_COOLDOWN)
              => (mtick'.alerted /\ alerts' = alerts + 1)
        /\ mtick'.topics \subseteq {"system_alert"}
        /\ (mtick'.topics # {} => mtick'.alerted)]_vars

\* alert, a suppressed breach within the cooldown, then the second alert
C10_Witness ==
    /\ ticks = 3 /\ alerts = 2
    /\ mtick.after_suppressed
    /\ mtick.sampled /\ mtick.alerted /\ mtick.cpu > CPU_THRESHOLD
    /\ mtick.clauses = {"cpu"}
    /\ mtick.topics = {"system_alert"} /\ mtick.spoken
    /\ mtick.time - StartTime > ALERT_COOLDOWN
    /\ mtick.time - StartTime <= ALERT_COOLDOWN + SLEEP_SECONDS

\* a process of the list that is over the per-process threshold and is not
\* one of the two names the monitor leaves out
ProcessBreach(procs) ==
    \E i \in DOMAIN procs :
        /\ procs[i].cpu_percent > PROCESS_THRESHOLD
        /\ procs[i].name \notin {"python.exe", "System Idle Process"}

\* C11: an iteration that alerts composes one alert message; the message has
\* the clause of a metric exactly when that metric is over its threshold in
\* this iteration, and last_alert_time becomes this iteration's time.
C11_OneMessageWithBreachedClauses ==
    [][(ticks' = ticks + 1 /\ mtick'.alerted) =>
          /\ alerts' = alerts + 1
          /\ mtick'.topics \subseteq {"system_alert"}
          /\ ("cpu" \in mtick'.clauses) <=> (mtick'.cpu > CPU_THRESHOLD)
          /\ ("ram" \in mtick'.clauses) <=> (mtick'.ram > RAM_THRESHOLD)
          /\ ("disk" \in mtick'.clauses) <=> (mtick'.disk > DISK_THRESHOLD)
          /\ ("process" \in mtick'.clauses) <=> ProcessBreach(processes')
          /\ mtick'.clauses \subseteq {"cpu", "ram", "disk", "process"}
          /\ last_alert_time' = mtick'.time
          /\ mtick'.time = clock]_vars

\* the scenario: CPU 95, RAM 50, disk 50, no process over its threshold, the
\* cooldown over; the alert went out with the CPU clause alone
C11_Witness ==
    /\ mtick.alerted /\ mtick.elapsed
    /\ mtick.cpu = 95 /\ mtick.ram = 50 /\ mtick.disk = 50
    /\ \E i \in DOMAIN processes : processes[i].name = "python.exe"
    /\ ~ProcessBreach(processes)
    /\ mtick.clauses = {"cpu"}
    /\ mtick.topics = {"system_alert"}
    /\ last_alert_time = mtick.time
    /\ alerts = 2

\* C12: every iteration that has sampled publishes one payload on
\* system_metrics, alert due or not; when that publish raises, the same
\* iteration still evaluates the alert and the loop goes on.
C12_MetricsEveryTick ==
    [][(ticks' = ticks + 1 /\ mtick'.sampled) =>
          /\ mtick'.metrics_attempts = 1
          /\ mtick'.alive
          /\ mtick'.elapsed <=> (clock - last_alert_time > ALERT_COOLDOWN)
          /\ mtick'.alerted <=>
                /\ clock - last_alert_time > ALERT_COOLDOWN
                /\ \/ mtick'.cpu > CPU_THRESHOLD
                   \/ mtick'.ram > RAM_THRESHOLD
                   \/ mtick'.disk > DISK_THRESHOLD
                   \/ ProcessBreach(processes')]_vars

\* the metrics publish of an iteration raised and the iteration alerted all
\* the same; the iteration before had lost its metrics publish too
C12_Witness ==
    /\ mtick.sampled /\ mtick.after_metrics_failure
    /\ ~mtick.metrics_published
    /\ mtick.alerted /\ mtick.topics = {"system_alert"}

\* an iteration after one whose metrics publish raised publishes its
\* metrics, with no alert due
C12_NextTickPublishes ==
    /\ mtick.sampled /\ mtick.after_metrics_failure
    /\ mtick.metrics_published /\ ~mtick.alerted

\* C13: an iteration whose sampling (or anything else in the outer try)
\* raises is skipped alone: last_alert_time and the alerts are as before,
\* nothing is published, and the loop makes its next iteration.
C13_FailedTickIsSkipped ==
    /\ [][(ticks' = ticks + 1 /\ ~mtick'.sampled) =>
             /\ last_alert_time' = last_alert_time
             /\ alerts' = alerts
             /\ mtick'.topics = {} /\ ~mtick'.spoken
             /\ mtick'.metrics_attempts = 0
             /\ mtick'.alive]_vars
    /\ \A k \in 1..(MaxTicks - 1) :
          (ticks = k /\ ~mtick.sampled) ~> (ticks = k + 1)

\* sampling raised in the iteration after an alert: the alert state is the
\* one the alert left and the loop is alive
C13_Witness ==
    /\ ticks = 2 /\ alerts = 1
    /\ ~mtick.sampled /\ mtick.alive
    /\ mtick.time > StartTime
    /\ last_alert_time = StartTime

\* the replies that report success, and the replies that report that the
\* bridge could not be reached
DoneMessages == {DoneMessage(t) : t \in Tools}
ErrorMessages == {ErrorMessage(t) : t \in Tools}

\* C14: a tool called while no room is set, or whose publish raises,
\* returns the bridge-connection error and no success message, and nothing
\* is published.
C14_UnreachableIsReported ==
    (dlast.tool # None /\ (dlast.room = None \/ ~dlast.publishOk))
        => /\ dlast.reply = ErrorMessage(dlast.tool)
           /\ dlast.reply \notin DoneMessages
           /\ dlast.published = << >>

\* lock_pc_local with a room set and a publish that raises
C14_Witness ==
    /\ dlast.tool = "lock_pc_local"
    /\ dlast.room # None /\ ~dlast.publishOk
    /\ dlast.reply = "Error: Desktop bridge se connection nahi hai."

\* a tool called before any room was set
C14_NoRoom ==
    /\ dlast.tool = "open_whatsapp_local" /\ dlast.room = None /\ dlast.publishOk
    /\ dlast.reply \in ErrorMessages

\* C15: the reply of a tool tells the caller which case happened: executed,
\* bridge offline, unauthorized, unknown command, executor failed. A command
\* whose executor failed on the Bridge is therefore not answered with the
\* reply of a command that was executed.
C15_OutcomesDistinguished ==
    (dlast.handled /\ dlast.published = << last.packet >>)
        => /\ (last.outcome # "ok") => dlast.reply \notin DoneMessages
           /\ (last.outcome = "ok") => dlast.reply \in DoneMessages

\* the task has ended and its automation sequence acted on the desktop
UiRan(t) ==
    /\ t.pc > Len(t.steps)
    /\ \E j \in DOMAIN t.steps : IsUi(t.steps[j])

\* C16: a two-tier send probes the API tier before anything else, and its
\* UI-automation tier runs only after the API tier answered with a
\* definitive negative: the health probe says not ready, a connection
\* fails, a response is not 2xx (or no chat matches the contact); never
\* after a POST /send answered 200.
C16_UiOnlyAfterDefinitiveNegative ==
    \A i \in DOMAIN tasks :
        (tasks[i].command \in {"send_whatsapp", "send_whatsapp_contact"}
         /\ UiRan(tasks[i]))
            => /\ SelectSeq(tasks[i].steps, LAMBDA x : x # "logger")[1] = "GET /health"
               /\ tasks[i].send # "200"
               /\ \/ tasks[i].health \in {"not_ready", "conn_error"}
                  \/ tasks[i].chats \in {"no_match", "500"}
                  \/ tasks[i].send = "500"

\* C17: the automation sequences of two commands never interleave: on the
\* desktop the steps of one task are all before or all after the steps of
\* any other task, whenever the second command arrives.
C17_AutomationNeverInterleaves ==
    \A i, k \in DOMAIN screen :
        (i < k /\ screen[i].task = screen[k].task)
            => screen[i + 1].task = screen[i].task

\* two sends by contact name fell back to the UI tier; the second command
\* had arrived before the first touched the desktop, and both sequences ran
C17_Witness ==
    /\ Len(tasks) = 2
    /\ \A i \in DOMAIN tasks :
           /\ tasks[i].command = "send_whatsapp_contact"
           /\ UiRan(tasks[i])
           /\ tasks[i].created_at = 0
    /\ \E i, j \in DOMAIN screen : screen[i].task = 1 /\ screen[j].task = 2

\* C18: a message that stays in the service's pending list while the
\* service can be reached is forwarded, and forwarded once. Stated on the
\* steps of the two polling loops: the listener's loop puts an id aside as
\* notified (after which it never forwards it) only when it has handed the
\* message to the callback, and the Bridge's loop does not forward in one
\* iteration what it forwarded in the iteration before.
C18_EventuallyForwardedOnce ==
    [][/\ \A id \in notified' \ notified : id \in Range(ltick'.delivered)
       /\ Range(btick'.forwarded) \cap Range(bprev'.forwarded) = {}]_vars

\* Direct Transport, POST /command with the shared secret in the body, as
\* handleCommand is specified: unauthorized on a secret mismatch, an error
\* for an unknown command, else the mapped executor and its result
handleCommand(envelope, outcome) ==
    IF envelope.secret # ConfiguredSecret
    THEN [calls |-> << >>,
          result |-> [status |-> "error", message |-> "unauthorized"]]
    ELSE IF envelope.command \notin RegisteredCommands
    THEN [calls |-> << >>,
          result |-> [status |-> "error", message |-> "unknown command"]]
    ELSE [calls |-> << [name |-> ExecutorOf(envelope.command),
                        args |-> ArgsOf(envelope.command, envelope.params)] >>,
          result |-> IF outcome = "ok"
                     THEN [status |-> "ok", message |-> "done"]
                     ELSE [status |-> "error", message |-> outcome]]

\* the envelope a dispatcher sends by Direct Transport: the same command and
\* params, with the shared secret
DirectEnvelope(payload) == [payload EXCEPT !.secret = ConfiguredSecret]

\* C19: an envelope delivered by Channel Transport (published on
\* local_commands and handled by handle_data) causes the executor calls and
\* gives the dispatcher the result that the same envelope delivered by
\* Direct Transport causes and gives.
C19_TransportTransparency ==
    (dlast.handled /\ dlast.published = << last.packet >>)
        => LET direct == handleCommand(DirectEnvelope(last.packet), last.outcome)
           IN  /\ last.calls = direct.calls
               /\ (dlast.reply \in DoneMessages) <=> (direct.result.status = "ok")

\* C20: a trim of the set keeps exactly the 50 ids inserted last and drops
\* the ids inserted before them: no id inserted later than a kept id is
\* dropped.
C20_TrimKeepsMostRecent ==
    lcheck.trimmed =>
        LET n == Len(lcheck.grown)
            Position(id) == CHOOSE i \in 1..n : lcheck.grown[i] = id
        IN  /\ Cardinality(notified) = TrimKeep
            /\ notified = Range(SubSeq(lcheck.grown, n - TrimKeep + 1, n))
            /\ \A kept \in notified, dropped \in Range(lcheck.grown) \ notified :
                   Position(dropped) < Position(kept)

C22_CachedIdsWereForwarded ==
    \A id \in Range(ltick.called) :
        id \in notified => id \in Range(ltick.delivered)

(***************************************************************************)
(* C23: on a sampling tick with at least one threshold exceeded the alert  *)
(* is emitted exactly when at least ALERT_COOLDOWN seconds have passed     *)
(* since the last alert: not when fewer have passed, and also when exactly *)
(* ALERT_COOLDOWN have.                                                    *)
(***************************************************************************)
C23_EmittedFromCooldownOn ==
    [][(/\ ticks' = ticks + 1
        /\ mtick'.sampled
        /\ Clauses(mtick'.cpu, mtick'.ram, mtick'.disk,
                   mtick'.high_usage_app) # {})
          => (mtick'.alerted
                <=> mtick'.time - last_alert_time >= ALERT_COOLDOWN)]_vars

\* how many times a task made the request
Requests(t, request) == Len(SelectSeq(t.steps, LAMBDA x : x = request))

(***************************************************************************)
(* C24: a two-tier send whose API request ran into its timeout goes on to  *)
(* the UI tier only after it has made that request a second time.          *)
(***************************************************************************)
C24_TimeoutRetriedBeforeUi ==
    \A i \in DOMAIN tasks :
        (tasks[i].command \in {"send_whatsapp", "send_whatsapp_contact"}
         /\ UiRan(tasks[i]))
            => /\ tasks[i].send = "timeout" => Requests(tasks[i], "POST /send") >= 2
               /\ tasks[i].health = "timeout"
                      => Requests(tasks[i], "GET /health") >= 2

(***************************************************************************)
(* C25: within one poll tick the messages are forwarded in the order in    *)
(* which they were fetched: what the Bridge's tick forwarded is its        *)
(* fetched list without the messages it did not forward, and the ids the   *)
(* listener's tick called the callback with are the fetched ids it did not *)
(* skip, each at its first place in the fetched list.                      *)
(***************************************************************************)
C25_ForwardedInFetchOrder ==
    /\ btick.forwarded =
           SelectSeq(btick.fetched, LAMBDA m : m \in Range(btick.forwarded))
    /\ ltick.called =
           FirstOccurrences(
               SelectSeq(ltick.fetched, LAMBDA m : m \in Range(ltick.called)))

\* both loops forwarded several messages in their last tick, the listener
\* after it skipped some of the fetched ones
C25_Witness ==
    /\ Len(btick.forwarded) >= 2
    /\ Len(ltick.called) >= 2
    /\ Range(ltick.fetched) \ Range(ltick.called) # {}

(***************************************************************************)
(* C26: the set of notified ids is touched by the polling loop only: every *)
(* step that changes the set is a tick of poll_whatsapp_messages that      *)
(* handed the added ids to the callback, so what the loop forwards does    *)
(* not depend on what other flows do in between.                           *)
(***************************************************************************)
C26_OnlyPollingTouchesTheSet ==
    [][notified' # notified
         => /\ lcheck' = NoCheck
            /\ notified' \ notified = Range(ltick'.called)
            /\ notified \subseteq notified']_vars

C28_LastAlertTimeFrame ==
    [][ticks' = ticks + 1 =>
        LET since == mtick'.time - last_alert_time
            breach == \/ mtick'.cpu > CPU_THRESHOLD
                      \/ mtick'.ram > RAM_THRESHOLD
                      \/ mtick'.disk > DISK_THRESHOLD
                      \/ ProcessBreach(processes')
        IN  /\ last_alert_time' # last_alert_time
                => /\ mtick'.sampled /\ breach /\ since >= ALERT_COOLDOWN
                   /\ last_alert_time' = mtick'.time
            /\ (mtick'.sampled /\ breach /\ since > ALERT_COOLDOWN)
                => /\ last_alert_time' = mtick'.time
                   /\ mtick'.speech_requests = 1
            /\ (~mtick'.sampled \/ ~breach \/ since < ALERT_COOLDOWN)
                => /\ last_alert_time' = last_alert_time
                   /\ mtick'.speech_requests = 0
                   /\ mtick'.topics = {}]_vars

\* the second alert of a run: the publish on system_alert and the speech
\* request both failed, and last_alert_time is the time of that iteration
C28_Witness ==
    /\ alerts = 2 /\ mtick.alerted
    /\ mtick.topics = {} /\ ~mtick.spoken /\ mtick.speech_requests = 1
    /\ last_alert_time = mtick.time
    /\ mtick.time > StartTime + ALERT_COOLDOWN

(***************************************************************************)
(* C29: every id check_whatsapp_messages reports as new is in the set when *)
(* the call returns: the cut made in the same call removes none of the ids *)
(* that call added (so a second call right after it, with the same pending *)
(* list, reports none of them again).                                      *)
(***************************************************************************)
C29_ReportedIdsAreCached ==
    lcheck.reply = "new messages" => Range(lcheck.reported) \subseteq notified

(***************************************************************************)
(* C30: one call of check_whatsapp_messages reports each id at most once,  *)
(* also when the fetched list shows an id more than once: it reports what  *)
(* an iteration of the polling loop would hand to the callback for the     *)
(* same list and the same set.                                             *)
(***************************************************************************)
C30_ReportedOncePerCall ==
    [][(lcheck'.reply = "new messages" /\ notified' # notified)
         => /\ Repeated(lcheck'.reported) = {}
            /\ lcheck'.reported =
                 listener_poll_tick(notified, inserted, TRUE, TRUE, 0).called]_vars

====
